---- MODULE Spec2Model ----
(***************************************************************************)
(* Model of crates/precompile/src/expander.rs: the verify_expander         *)
(* precompile.  One call is a straight-line pipeline; every statement that *)
(* can leave the function (return, `?`, panic) is one action, and the      *)
(* locals keep the source's names (shadowed bindings get a numeric         *)
(* suffix).  The external crates (flate2, ethabi, circuit, transcript,     *)
(* halo2curves, expander) are modelled at their interface by small codecs  *)
(* over a scaled-down byte alphabet: what matters to verify_expander is    *)
(* which of Ok / Err each library call returns and what value it carries.  *)
(***************************************************************************)
EXTENDS Integers, Sequences, FiniteSets, TLC

\* ---------------------------------------------------------------- bounds
MaxByte == 3        \* bytes are 0..MaxByte (scaled down from 0..255)
MaxCircuit == 1     \* longest circuit_bytes in a generated bundle
MaxWitness == 1     \* longest witness_bytes in a generated bundle
MaxProof == 2       \* longest proof_bytes in a generated bundle

\* ------------------------------------------------------- program constant
GAS == 7500

VARIABLES
    input,          \* the call data (&Bytes), never written by the function
    gas_limit,      \* the gas_limit argument
    pc,             \* the statement the call is at
    result,         \* what the call produced: Ok, Err or a panic
    trace,          \* the stages that have run in this call, in order
    input1,         \* `input` as rebound at line 29 (payload after the tag)
    e,              \* the GzDecoder of line 40
    input2,         \* `input` as rebound at line 39 (decompressed payload)
    tokens0,        \* `tokens` of line 52 (Vec<Token> from ethabi::decode)
    tokens,         \* `tokens` as rebound at line 66 (the tuple's elements)
    circuit_bytes, witness_bytes, proof_bytes,
    circuit,        \* the Circuit of line 98
    cursor,         \* the Cursor of line 110 (its position)
    proof,          \* the Proof of line 111
    claimed_v,      \* the Fr of line 114
    first           \* the first completed call, kept to compare repeats with

locals == <<input1, e, input2, tokens0, tokens, circuit_bytes, witness_bytes,
            proof_bytes, circuit, cursor, proof, claimed_v>>
vars == <<input, gas_limit, pc, result, trace, input1, e, input2, tokens0,
          tokens, circuit_bytes, witness_bytes, proof_bytes, circuit, cursor,
          proof, claimed_v, first>>

\* ------------------------------------------------------------- helpers
Byte == 0..MaxByte

Min(a, b) == IF a < b THEN a ELSE b

RECURSIVE Sum(_)
Sum(s) == IF s = <<>> THEN 0 ELSE Head(s) + Sum(Tail(s))

\* ------------------------------------------------------ result values
NoResult == [kind |-> "None", err |-> "", msg |-> <<"", "">>, gas_used |-> 0, bytes |-> <<>>]

\* Err(PrecompileErrors::Error(PrecompileError::OutOfGas))
ErrOutOfGas == [kind |-> "Err", err |-> "OutOfGas", msg |-> <<"", "">>, gas_used |-> 0, bytes |-> <<>>]

\* Err(PrecompileErrors::Error(PrecompileError::Other(format!("<prefix>{e}"))))
ErrOther(prefix, cause) ==
    [kind |-> "Err", err |-> "Other", msg |-> <<prefix, cause>>, gas_used |-> 0, bytes |-> <<>>]

\* a Rust panic unwinding out of verify_expander
Panic(what) == [kind |-> "Panic", err |-> "", msg |-> <<what, "">>, gas_used |-> 0, bytes |-> <<>>]

\* Ok(PrecompileOutput::new(gas, bytes))
PrecompileOutputNew(gas, bytes) ==
    [kind |-> "Ok", err |-> "", msg |-> <<"", "">>, gas_used |-> gas, bytes |-> bytes]

\* -------------------------------------------------------- gas admission
GasAdmissionOffByOne(gl) == gl < GAS - 1
\* line 26: gas_limit < GAS
InsufficientGas(gl) == gl < GAS

\* -------------------------------------------------------- source tag
SourceTagLax(b) == IF b = 1 THEN "external" ELSE "inline"
\* the match of lines 29-37 on input[0]
SourceTag(b) == IF b = 0 THEN "inline" ELSE IF b = 1 THEN "external" ELSE "other"

TagErrMsg == "data type format error"

\* ---------------------------------------------------- flate2 GzDecoder
\* A stream is <<magic>> \o deflated body \o <<crc>>.  The magic is 1, a body
\* byte b stands for MaxByte - b, and the crc is the sum of the inflated body
\* modulo MaxByte + 1.
Inflate(b) == MaxByte - b
Deflate(b) == MaxByte - b
InflateAll(s) == [i \in 1..Len(s) |-> Inflate(s[i])]
DeflateAll(s) == [i \in 1..Len(s) |-> Deflate(s[i])]
Crc(body) == Sum(body) % (MaxByte + 1)

GzEncode(body) == <<1>> \o DeflateAll(body) \o <<Crc(body)>>

StaleVec == input2
\* Vec::new() of line 40
NewVec == <<>>

\* GzDecoder::new(w)
GzDecoderNew(w) == [inner |-> w, crc_bytes |-> <<>>]

\* e.write_all(buf): parses the header and inflates everything but the
\* trailer into the inner writer; a bad header is an io::Error.
GzWriteAll(d, buf) ==
    IF buf = <<>> THEN [ok |-> TRUE, d |-> d, e |-> ""]
    ELSE IF buf[1] # 1 THEN [ok |-> FALSE, d |-> d, e |-> "invalid gzip header"]
    ELSE IF Len(buf) = 1 THEN [ok |-> TRUE, d |-> d, e |-> ""]
    ELSE [ok |-> TRUE,
          d |-> [inner |-> d.inner \o InflateAll(SubSeq(buf, 2, Len(buf) - 1)),
                 crc_bytes |-> <<buf[Len(buf)]>>],
          e |-> ""]

\* e.finish(): fails unless the trailer was seen and matches; returns the
\* inner writer.
GzFinish(d) ==
    IF d.crc_bytes = <<>> THEN [ok |-> FALSE, val |-> <<>>, e |-> "corrupt gzip stream does not have a matching checksum"]
    ELSE IF d.crc_bytes[1] # Crc(d.inner) THEN [ok |-> FALSE, val |-> <<>>, e |-> "corrupt gzip stream does not have a matching checksum"]
    ELSE [ok |-> TRUE, val |-> d.inner, e |-> ""]

GzWriteErrPrefix == "verify expander gzdecode write_all error:"
GzFinishErrPrefixSame == "verify expander gzdecode write_all error:"
GzFinishErrPrefix == "verify expander gzdecode finish error:"

\* ------------------------------------------------------------- ethabi
ParamTypeBytes == [kind |-> "Bytes", elems |-> <<>>]
ParamTypeTuple(ts) == [kind |-> "Tuple", elems |-> ts]
TokenBytes(b) == [kind |-> "Bytes", bytes |-> b, elems |-> <<>>]
TokenTuple(ts) == [kind |-> "Tuple", bytes |-> <<>>, elems |-> ts]

\* the type list of lines 53-57
ExpanderParamTypes == <<ParamTypeTuple(<<ParamTypeBytes, ParamTypeBytes, ParamTypeBytes>>)>>

\* a byte string is a length word followed by that many bytes
ReadBytesAt(data, pos) ==
    IF pos + 1 > Len(data) THEN [ok |-> FALSE, val |-> <<>>, pos |-> pos]
    ELSE IF pos + 1 + data[pos + 1] > Len(data) THEN [ok |-> FALSE, val |-> <<>>, pos |-> pos]
    ELSE [ok |-> TRUE, val |-> SubSeq(data, pos + 2, pos + 1 + data[pos + 1]),
          pos |-> pos + 1 + data[pos + 1]]

\* type-directed decoding: one token per type, or failure
RECURSIVE DecodeParams(_, _, _)
DecodeParams(types, data, pos) ==
    IF types = <<>> THEN [ok |-> TRUE, toks |-> <<>>, pos |-> pos]
    ELSE LET t == Head(types)
             hd == IF t.kind = "Bytes"
                     THEN LET r == ReadBytesAt(data, pos)
                          IN  [ok |-> r.ok, tok |-> TokenBytes(r.val), pos |-> r.pos]
                     ELSE LET r == DecodeParams(t.elems, data, pos)
                          IN  [ok |-> r.ok, tok |-> TokenTuple(r.toks), pos |-> r.pos]
         IN  IF ~hd.ok THEN [ok |-> FALSE, toks |-> <<>>, pos |-> pos]
             ELSE LET tl == DecodeParams(Tail(types), data, hd.pos)
                  IN  IF ~tl.ok THEN [ok |-> FALSE, toks |-> <<>>, pos |-> pos]
                      ELSE [ok |-> TRUE, toks |-> <<hd.tok>> \o tl.toks, pos |-> tl.pos]

\* ethabi::decode(types, data)
EthabiDecode(types, data) ==
    LET r == DecodeParams(types, data, 0)
    IN  IF r.ok THEN [ok |-> TRUE, val |-> r.toks, e |-> ""]
        ELSE [ok |-> FALSE, val |-> <<>>, e |-> "Invalid data"]

AbiEncode(c, w, p) == <<Len(c)>> \o c \o <<Len(w)>> \o w \o <<Len(p)>> \o p

\* slice.first() / slice.get(i): Option<&T>, i counted from 0
SliceGet(s, i) == IF i < Len(s) THEN [some |-> TRUE, val |-> s[i + 1]]
                  ELSE [some |-> FALSE, val |-> TokenBytes(<<>>)]
SliceFirst(s) == SliceGet(s, 0)

\* Token::into_tuple / Token::into_bytes under Option::and_then
AndThenIntoTuple(o) == IF o.some /\ o.val.kind = "Tuple" THEN [some |-> TRUE, val |-> o.val.elems]
                       ELSE [some |-> FALSE, val |-> <<>>]
AndThenIntoBytes(o) == IF o.some /\ o.val.kind = "Bytes" THEN [some |-> TRUE, val |-> o.val.bytes]
                       ELSE [some |-> FALSE, val |-> <<>>]

\* the three lookups of lines 74-96
GetCircuitToken(ts) == SliceFirst(ts)
GetWitnessTokenSwapped(ts) == SliceGet(ts, 2)
GetWitnessToken(ts) == SliceGet(ts, 1)
GetProofToken(ts) == SliceGet(ts, 2)

DecodeErrPrefix == "decode verify expander error:"
IdErrMsg == "verify expander id format error"
CircuitFmtErrMsg == "verify expander circuit format error"
WitnessFmtErrMsg == "verify expander witness format error"
ProofFmtErrMsg == "verify expander proof format error"

\* ---------------------------------------------------------- circuit
NoCircuit == [layers |-> <<>>, public_input |-> <<>>]

\* Circuit::load_circuit_bytes: a circuit file starts with the magic 1
LoadCircuitBytes(b) ==
    IF b = <<>> THEN [ok |-> FALSE, val |-> NoCircuit, e |-> "failed to fill whole buffer"]
    ELSE IF b[1] # 1 THEN [ok |-> FALSE, val |-> NoCircuit, e |-> "invalid circuit"]
    ELSE [ok |-> TRUE, val |-> [layers |-> Tail(b), public_input |-> <<>>], e |-> ""]

\* circuit.load_witness_bytes(w, false): returns (), fills public_input
LoadWitnessBytes(c, w) == [c EXCEPT !.public_input = w]

LoadCircuitErrPrefix == "load_circuit_bytes error:"

\* ------------------------------------------------ proof and claimed value
\* Proof::deserialize_from(cursor): a length word, then that many bytes
ProofDeserializeFrom(bytes, pos) ==
    LET r == ReadBytesAt(bytes, pos)
    IN  IF r.ok THEN [ok |-> TRUE, val |-> r.val, pos |-> r.pos, e |-> ""]
        ELSE [ok |-> FALSE, val |-> <<>>, pos |-> pos, e |-> "failed to fill whole buffer"]

\* Fr::deserialize_from(cursor): one byte, canonical when below the modulus
\* (the modulus is MaxByte)
FrDeserializeFrom(bytes, pos) ==
    IF pos + 1 > Len(bytes) THEN [ok |-> FALSE, val |-> 0, pos |-> pos, e |-> "failed to fill whole buffer"]
    ELSE IF bytes[pos + 1] >= MaxByte THEN [ok |-> FALSE, val |-> 0, pos |-> pos + 1, e |-> "not in field"]
    ELSE [ok |-> TRUE, val |-> bytes[pos + 1], pos |-> pos + 1, e |-> ""]

ProofErrPrefix == "format proof error:"
ClaimedErrPrefixSame == "format proof error:"
ClaimedErrPrefix == "format claimed error:"

\* verifier.verify(circuit, public_input, claimed_v, proof)
VerifierVerify(c, public_input, claimed, pf) ==
    claimed = (Sum(c.layers) + Sum(public_input) + Sum(pf)) % MaxByte

\* ------------------------------------------------------ result encoder
VerdictBytesBad(b) == IF b THEN <<"y">> ELSE <<>>
\* lines 118-122
VerdictBytes(b) == IF b THEN <<"y">> ELSE <<"n">>

\* ------------------------------------------------------------ call data
\* Byte strings of length at most n (a length word holds at most MaxByte).
Fields(n) == UNION {[1..k -> Byte] : k \in 0..Min(n, MaxByte)}

\* tag 0, then the gzip stream of the ABI encoding of (circuit, witness, proof)
Frame(c, w, p) == <<0>> \o GzEncode(AbiEncode(c, w, p))

Frames == {Frame(c, w, p) : c \in Fields(MaxCircuit), w \in Fields(MaxWitness),
                            p \in Fields(MaxProof)}

Prefixes(s) == {SubSeq(s, 1, k) : k \in 0..Len(s)}
Substitutions(s) == {[s EXCEPT ![i] = v] : i \in 1..Len(s), v \in Byte}

\* what a caller may pass: every well-formed frame, every truncation of one
\* and every frame with one byte replaced
CallDatas == UNION {Prefixes(f) \cup Substitutions(f) : f \in Frames}

GasLimits == {GAS - 1, GAS, GAS + 1}

\* the call data used when the precompile is called repeatedly
RepeatCallDatas == Prefixes(Frame(<<1>>, <<>>, <<0, 0>>))
                   \cup {Frame(<<1>>, <<>>, <<0, 1>>), <<1>>, <<2>>}
RepeatGasLimits == {GAS - 1, GAS}

NoCall == [set |-> FALSE, input |-> <<>>, gas_limit |-> 0, result |-> NoResult]

\* ---------------------------------------------------------------- Init
InitLocals ==
    /\ input1 = <<>>
    /\ e = GzDecoderNew(<<>>)
    /\ input2 = <<>>
    /\ tokens0 = <<>>
    /\ tokens = <<>>
    /\ circuit_bytes = <<>>
    /\ witness_bytes = <<>>
    /\ proof_bytes = <<>>
    /\ circuit = NoCircuit
    /\ cursor = 0
    /\ proof = <<>>
    /\ claimed_v = 0

Init ==
    /\ input \in CallDatas
    /\ gas_limit \in GasLimits
    /\ pc = "gas"
    /\ result = NoResult
    /\ trace = <<>>
    /\ first = NoCall
    /\ InitLocals

InitRepeat ==
    /\ input \in RepeatCallDatas
    /\ gas_limit \in RepeatGasLimits
    /\ pc = "gas"
    /\ result = NoResult
    /\ trace = <<>>
    /\ first = NoCall
    /\ InitLocals

\* ------------------------------------------------------------- actions
\* `return Err(..)`, `?` on an Err, a panic, or the final Ok
Return(r) == pc' = "done" /\ result' = r
Goto(l) == pc' = l /\ result' = result
Ran(stage) == trace' = Append(trace, stage) /\ UNCHANGED <<input, gas_limit, first>>

\* lines 26-28
GasAdmission ==
    /\ pc = "gas"
    /\ Ran("gas")
    /\ IF InsufficientGas(gas_limit) THEN Return(ErrOutOfGas) ELSE Goto("tag")
    /\ UNCHANGED locals

\* lines 29-37
InputDemux ==
    /\ pc = "tag"
    /\ Ran("tag")
    /\ IF input = <<>>
         THEN Return(Panic("index out of bounds")) /\ UNCHANGED input1
         ELSE IF SourceTag(input[1]) = "inline"
                THEN Goto("gz_write") /\ input1' = Tail(input)
                ELSE IF SourceTag(input[1]) = "external"
                       THEN Return(Panic("not yet implemented: get data from side chain"))
                            /\ UNCHANGED input1
                       ELSE Return(ErrOther(TagErrMsg, "")) /\ UNCHANGED input1
    /\ UNCHANGED <<e, input2, tokens0, tokens, circuit_bytes, witness_bytes,
                   proof_bytes, circuit, cursor, proof, claimed_v>>

\* lines 40-45
GzWrite ==
    /\ pc = "gz_write"
    /\ Ran("gz_write")
    /\ LET r == GzWriteAll(GzDecoderNew(NewVec), input1)
       IN  /\ e' = r.d
           /\ IF r.ok THEN Goto("gz_finish") ELSE Return(ErrOther(GzWriteErrPrefix, r.e))
    /\ UNCHANGED <<input1, input2, tokens0, tokens, circuit_bytes, witness_bytes,
                   proof_bytes, circuit, cursor, proof, claimed_v>>

\* lines 46-51
GzFinishStep ==
    /\ pc = "gz_finish"
    /\ Ran("gz_finish")
    /\ LET r == GzFinish(e)
       IN  IF r.ok THEN Goto("abi_decode") /\ input2' = r.val
           ELSE Return(ErrOther(GzFinishErrPrefix, r.e)) /\ UNCHANGED input2
    /\ UNCHANGED <<input1, e, tokens0, tokens, circuit_bytes, witness_bytes,
                   proof_bytes, circuit, cursor, proof, claimed_v>>

\* lines 52-64
AbiDecode ==
    /\ pc = "abi_decode"
    /\ Ran("abi_decode")
    /\ LET r == EthabiDecode(ExpanderParamTypes, input2)
       IN  IF r.ok THEN Goto("into_tuple") /\ tokens0' = r.val
           ELSE Return(ErrOther(DecodeErrPrefix, r.e)) /\ UNCHANGED tokens0
    /\ UNCHANGED <<input1, e, input2, tokens, circuit_bytes, witness_bytes,
                   proof_bytes, circuit, cursor, proof, claimed_v>>

\* lines 66-72
IntoTuple ==
    /\ pc = "into_tuple"
    /\ Ran("into_tuple")
    /\ LET o == AndThenIntoTuple(SliceFirst(tokens0))
       IN  IF o.some THEN Goto("circuit_bytes") /\ tokens' = o.val
           ELSE Return(ErrOther(IdErrMsg, "")) /\ UNCHANGED tokens
    /\ UNCHANGED <<input1, e, input2, tokens0, circuit_bytes, witness_bytes,
                   proof_bytes, circuit, cursor, proof, claimed_v>>

\* lines 74-80
CircuitBytes ==
    /\ pc = "circuit_bytes"
    /\ Ran("circuit_bytes")
    /\ LET o == AndThenIntoBytes(GetCircuitToken(tokens))
       IN  IF o.some THEN Goto("witness_bytes") /\ circuit_bytes' = o.val
           ELSE Return(ErrOther(CircuitFmtErrMsg, "")) /\ UNCHANGED circuit_bytes
    /\ UNCHANGED <<input1, e, input2, tokens0, tokens, witness_bytes,
                   proof_bytes, circuit, cursor, proof, claimed_v>>

\* lines 82-88
WitnessBytes ==
    /\ pc = "witness_bytes"
    /\ Ran("witness_bytes")
    /\ LET o == AndThenIntoBytes(GetWitnessToken(tokens))
       IN  IF o.some THEN Goto("proof_bytes") /\ witness_bytes' = o.val
           ELSE Return(ErrOther(WitnessFmtErrMsg, "")) /\ UNCHANGED witness_bytes
    /\ UNCHANGED <<input1, e, input2, tokens0, tokens, circuit_bytes,
                   proof_bytes, circuit, cursor, proof, claimed_v>>

\* lines 90-96
ProofBytes ==
    /\ pc = "proof_bytes"
    /\ Ran("proof_bytes")
    /\ LET o == AndThenIntoBytes(GetProofToken(tokens))
       IN  IF o.some THEN Goto("load_circuit") /\ proof_bytes' = o.val
           ELSE Return(ErrOther(ProofFmtErrMsg, "")) /\ UNCHANGED proof_bytes
    /\ UNCHANGED <<input1, e, input2, tokens0, tokens, circuit_bytes,
                   witness_bytes, circuit, cursor, proof, claimed_v>>

LoadCircuitIgnoringError ==
    /\ pc = "load_circuit"
    /\ Ran("load_circuit")
    /\ LET r == LoadCircuitBytes(circuit_bytes)
       IN  Goto("load_witness") /\ circuit' = r.val
    /\ UNCHANGED <<input1, e, input2, tokens0, tokens, circuit_bytes,
                   witness_bytes, proof_bytes, cursor, proof, claimed_v>>

\* lines 98-103
LoadCircuit ==
    /\ pc = "load_circuit"
    /\ Ran("load_circuit")
    /\ LET r == LoadCircuitBytes(circuit_bytes)
       IN  IF r.ok THEN Goto("load_witness") /\ circuit' = r.val
           ELSE Return(ErrOther(LoadCircuitErrPrefix, r.e)) /\ UNCHANGED circuit
    /\ UNCHANGED <<input1, e, input2, tokens0, tokens, circuit_bytes,
                   witness_bytes, proof_bytes, cursor, proof, claimed_v>>

\* lines 105-110: the witness load returns nothing; the configuration, the
\* verifier and the cursor (at position 0) are built
LoadWitness ==
    /\ pc = "load_witness"
    /\ Ran("load_witness")
    /\ circuit' = LoadWitnessBytes(circuit, witness_bytes)
    /\ cursor' = 0
    /\ Goto("read_proof")
    /\ UNCHANGED <<input1, e, input2, tokens0, tokens, circuit_bytes,
                   witness_bytes, proof_bytes, proof, claimed_v>>

\* lines 111-113
ReadProof ==
    /\ pc = "read_proof"
    /\ Ran("read_proof")
    /\ LET r == ProofDeserializeFrom(proof_bytes, cursor)
       IN  /\ cursor' = r.pos
           /\ IF r.ok THEN Goto("read_claimed") /\ proof' = r.val
              ELSE Return(ErrOther(ProofErrPrefix, r.e)) /\ UNCHANGED proof
    /\ UNCHANGED <<input1, e, input2, tokens0, tokens, circuit_bytes,
                   witness_bytes, proof_bytes, circuit, claimed_v>>

\* lines 114-116
ReadClaimed ==
    /\ pc = "read_claimed"
    /\ Ran("read_claimed")
    /\ LET r == FrDeserializeFrom(proof_bytes, cursor)
       IN  /\ cursor' = r.pos
           /\ IF r.ok THEN Goto("verify") /\ claimed_v' = r.val
              ELSE Return(ErrOther(ClaimedErrPrefix, r.e)) /\ UNCHANGED claimed_v
    /\ UNCHANGED <<input1, e, input2, tokens0, tokens, circuit_bytes,
                   witness_bytes, proof_bytes, circuit, proof>>

\* lines 117-124
Verify ==
    /\ pc = "verify"
    /\ Ran("verify")
    /\ LET public_input == circuit.public_input
           bytes == VerdictBytes(VerifierVerify(circuit, public_input, claimed_v, proof))
       IN  Return(PrecompileOutputNew(GAS, bytes))
    /\ UNCHANGED locals

\* the host calls the precompile again; the locals of the finished call are
\* dead and keep whatever they last held
CallAgain ==
    /\ pc = "done"
    /\ first' = IF first.set THEN first
                ELSE [set |-> TRUE, input |-> input, gas_limit |-> gas_limit, result |-> result]
    /\ input' \in RepeatCallDatas
    /\ gas_limit' \in RepeatGasLimits
    /\ pc' = "gas"
    /\ result' = NoResult
    /\ trace' = <<>>
    /\ UNCHANGED locals

Next ==
    \/ GasAdmission
    \/ InputDemux
    \/ GzWrite
    \/ GzFinishStep
    \/ AbiDecode
    \/ IntoTuple
    \/ CircuitBytes
    \/ WitnessBytes
    \/ ProofBytes
    \/ LoadCircuit
    \/ LoadWitness
    \/ ReadProof
    \/ ReadClaimed
    \/ Verify

NextRepeat == Next \/ CallAgain

\* one call
Spec == Init /\ [][Next]_vars

\* any number of calls, one after the other
SpecRepeat == InitRepeat /\ [][NextRepeat]_vars

\* =================================================================
\* What the library calls return on a given call data, stage by stage,
\* written as functions of the call data alone.
StageOrder == <<"gas", "tag", "gz_write", "gz_finish", "abi_decode", "into_tuple",
                "circuit_bytes", "witness_bytes", "proof_bytes", "load_circuit",
                "load_witness", "read_proof", "read_claimed", "verify">>

IsPrefix(s, t) == Len(s) <= Len(t) /\ s = SubSeq(t, 1, Len(s))
Ran_(stage) == \E i \in 1..Len(trace) : trace[i] = stage

TagInline(i) == i # <<>> /\ i[1] = 0
WriteRes(i) == GzWriteAll(GzDecoderNew(<<>>), Tail(i))
FinishRes(i) == GzFinish(WriteRes(i).d)
DecodeRes(i) == EthabiDecode(ExpanderParamTypes, FinishRes(i).val)
FieldOf(i, k) == DecodeRes(i).val[1].elems[k].bytes
CircuitRes(i) == LoadCircuitBytes(FieldOf(i, 1))
ProofRes(i) == ProofDeserializeFrom(FieldOf(i, 3), 0)
ClaimedRes(i) == FrDeserializeFrom(FieldOf(i, 3), ProofRes(i).pos)

\* the first stage, in StageOrder, that does not succeed on (i, g)
FailingStage(i, g) ==
    IF g < 7500 THEN "gas"
    ELSE IF ~TagInline(i) THEN "tag"
    ELSE IF ~WriteRes(i).ok THEN "gz_write"
    ELSE IF ~FinishRes(i).ok THEN "gz_finish"
    ELSE IF ~DecodeRes(i).ok THEN "abi_decode"
    ELSE IF ~CircuitRes(i).ok THEN "load_circuit"
    ELSE IF ~ProofRes(i).ok THEN "read_proof"
    ELSE IF ~ClaimedRes(i).ok THEN "read_claimed"
    ELSE "none"

\* the stage an error result speaks of
StageOfError(r) ==
    IF r.err = "OutOfGas" THEN "gas"
    ELSE IF r.msg[1] = "data type format error" THEN "tag"
    ELSE IF r.msg[1] = "verify expander gzdecode write_all error:" THEN "gz_write"
    ELSE IF r.msg[1] = "verify expander gzdecode finish error:" THEN "gz_finish"
    ELSE IF r.msg[1] = "decode verify expander error:" THEN "abi_decode"
    ELSE IF r.msg[1] = "verify expander id format error" THEN "into_tuple"
    ELSE IF r.msg[1] = "verify expander circuit format error" THEN "circuit_bytes"
    ELSE IF r.msg[1] = "verify expander witness format error" THEN "witness_bytes"
    ELSE IF r.msg[1] = "verify expander proof format error" THEN "proof_bytes"
    ELSE IF r.msg[1] = "load_circuit_bytes error:" THEN "load_circuit"
    ELSE IF r.msg[1] = "format proof error:" THEN "read_proof"
    ELSE IF r.msg[1] = "format claimed error:" THEN "read_claimed"
    ELSE "unknown"

AbiFormatErrors == {"decode verify expander error:", "verify expander id format error",
                    "verify expander circuit format error",
                    "verify expander witness format error",
                    "verify expander proof format error"}

\* C1: with gas_limit < 7500 the call ends with OutOfGas whatever the call
\* data is, and nothing but the gas check has run.
C1_OutOfGasBeforeAnyWork ==
    gas_limit < 7500 =>
        /\ IsPrefix(trace, <<"gas">>)
        /\ pc = "done" => (result = ErrOutOfGas /\ trace = <<"gas">>)
        /\ <<input1, e.inner, input2, tokens0>> = <<<<>>, <<>>, <<>>, <<>>>>

C1_Witness ==
    /\ pc = "done" /\ gas_limit = 7499 /\ result = ErrOutOfGas
    /\ input # <<>> /\ input[1] = 2

\* C2: with enough gas and a first byte of 1 the call returns an error
\* result classified as Unimplemented, never a panic.
C2_ExternalTagIsAnErrorResult ==
    (pc = "done" /\ gas_limit >= 7500 /\ input # <<>> /\ input[1] = 1) =>
        (result.kind = "Err" /\ result.err = "Unimplemented")

\* C3: with enough gas and empty call data the call returns a format/bounds
\* error result; it does not panic on byte 0.
C3_EmptyInputIsAnErrorResult ==
    (pc = "done" /\ gas_limit >= 7500 /\ input = <<>>) => result.kind = "Err"

\* C4: with enough gas and a first byte other than 0 and 1 the result is the
\* error "data type format error" whatever the remaining bytes are, and
\* neither decompression nor decoding runs.
C4_OtherTagIsFormatError ==
    (pc = "done" /\ gas_limit >= 7500 /\ input # <<>> /\ input[1] \notin {0, 1}) =>
        /\ result = ErrOther("data type format error", "")
        /\ trace = <<"gas", "tag">>

C4_Witness ==
    /\ pc = "done" /\ gas_limit >= 7500 /\ Len(input) > 1 /\ input[1] = 2
    /\ result.msg[1] = "data type format error"

C6_ClaimedValueError ==
    /\ (pc = "done" /\ Ran_("read_proof") /\ ProofDeserializeFrom(proof_bytes, 0).ok
        /\ ~FrDeserializeFrom(proof_bytes, ProofDeserializeFrom(proof_bytes, 0).pos).ok) =>
        /\ result.kind = "Err" /\ result.err = "Other"
        /\ result.msg[1] = "format claimed error:"
        /\ result.msg[1] # ProofErrPrefix
        /\ ~Ran_("verify")
    /\ (result.kind = "Err" /\ result.msg[1] = "format claimed error:") =>
        /\ ProofDeserializeFrom(proof_bytes, 0).ok
        /\ proof = ProofDeserializeFrom(proof_bytes, 0).val
        /\ trace = SubSeq(StageOrder, 1, 13)
    /\ Ran_("verify") =>
        /\ proof = SubSeq(proof_bytes, 2, 1 + proof_bytes[1])
        /\ claimed_v = proof_bytes[2 + proof_bytes[1]]

C6_Witness ==
    /\ pc = "done" /\ result.msg[1] = "format claimed error:"
    /\ Len(proof) = 1 /\ Len(proof_bytes) = 2

\* C7: when the decompressed payload does not decode to a tuple of three byte
\* strings (the decode fails, the value is not a tuple, a position is missing
\* or is not a byte string) the result is an ABI format error and neither the
\* circuit load nor the verification runs; otherwise circuit, witness and
\* proof are the byte strings at positions 0, 1 and 2, in that order.
C7_AbiFormatError ==
    /\ (pc = "done" /\ Ran_("abi_decode") /\ ~Ran_("load_circuit")) =>
        /\ result.kind = "Err" /\ result.err = "Other"
        /\ result.msg[1] \in AbiFormatErrors
    /\ (Ran_("abi_decode")
        /\ (\/ ~EthabiDecode(ExpanderParamTypes, input2).ok
            \/ Len(EthabiDecode(ExpanderParamTypes, input2).val) < 1
            \/ EthabiDecode(ExpanderParamTypes, input2).val[1].kind # "Tuple"
            \/ Len(EthabiDecode(ExpanderParamTypes, input2).val[1].elems) < 3
            \/ \E k \in 1..3 :
                 EthabiDecode(ExpanderParamTypes, input2).val[1].elems[k].kind # "Bytes")) =>
        /\ ~Ran_("load_circuit") /\ ~Ran_("verify")
        /\ result.kind = "Err" /\ result.msg[1] \in AbiFormatErrors
    /\ Ran_("load_circuit") =>
        /\ tokens = tokens0[1].elems
        /\ circuit_bytes = tokens[1].bytes
        /\ witness_bytes = tokens[2].bytes
        /\ proof_bytes = tokens[3].bytes
        /\ IsPrefix(AbiEncode(circuit_bytes, witness_bytes, proof_bytes), input2)

\* the payload holds exactly two byte strings
C7_Witness ==
    /\ pc = "done" /\ result.msg[1] = "decode verify expander error:"
    /\ ReadBytesAt(input2, 0).ok
    /\ ReadBytesAt(input2, ReadBytesAt(input2, 0).pos).ok
    /\ ReadBytesAt(input2, ReadBytesAt(input2, 0).pos).pos = Len(input2)

\* C8: the stages run in the fixed order and the call ends at the first stage
\* that fails, with that stage's error; no stage runs after a failure.
C8_FirstFailingStage ==
    /\ IsPrefix(trace, StageOrder)
    /\ pc # "done" => (result = NoResult /\ Len(trace) < Len(StageOrder)
                       /\ pc = StageOrder[Len(trace) + 1])
    /\ pc = "done" =>
        IF FailingStage(input, gas_limit) = "none"
          THEN result.kind = "Ok" /\ trace = StageOrder
          ELSE /\ result.kind # "Ok"
               /\ trace # <<>> /\ trace[Len(trace)] = FailingStage(input, gas_limit)
               /\ result.kind = "Err" => StageOfError(result) = FailingStage(input, gas_limit)

C8_Witness ==
    /\ pc = "done" /\ result.msg[1] = "load_circuit_bytes error:"
    /\ ~ProofDeserializeFrom(proof_bytes, 0).ok
    /\ trace[Len(trace)] = "load_circuit"

\* C9: a failure while writing the compressed bytes yields the write-phase
\* error, a failure while finishing the stream yields the finalize-phase
\* error, the two messages differ, and ABI decoding does not run.
C9_DecompressionPhases ==
    /\ (pc = "done" /\ Ran_("gz_write") /\ ~WriteRes(input).ok) =>
        /\ result = ErrOther("verify expander gzdecode write_all error:", WriteRes(input).e)
        /\ ~Ran_("gz_finish") /\ ~Ran_("abi_decode")
    /\ (pc = "done" /\ Ran_("gz_finish") /\ ~FinishRes(input).ok) =>
        /\ result = ErrOther("verify expander gzdecode finish error:", FinishRes(input).e)
        /\ ~Ran_("abi_decode")
    /\ (pc = "done" /\ Ran_("gz_write") /\ ~Ran_("abi_decode")) =>
        result.msg[1] = (IF Ran_("gz_finish") THEN "verify expander gzdecode finish error:"
                         ELSE "verify expander gzdecode write_all error:")

C9_Witness ==
    /\ pc = "done" /\ result.msg[1] = "verify expander gzdecode finish error:"
    /\ e.crc_bytes # <<>> /\ ~Ran_("abi_decode")

\* C10: a call with the call data and gas_limit of the first call ends with
\* the result of the first call, whatever was called in between.
C10_Deterministic ==
    (pc = "done" /\ first.set /\ input = first.input /\ gas_limit = first.gas_limit) =>
        result = first.result

C10_Witness ==
    /\ pc = "done" /\ first.set /\ input = first.input /\ gas_limit = first.gas_limit
    /\ result.kind = "Ok" /\ input2 # <<>>

====
